---- MODULE Spec2Model ----
(***************************************************************************)
(* The distributed log analyser of implementation/stage2/                  *)
(* distributed_log_analyzer.py: one master (rank 0) and size-1 workers     *)
(* that exchange Dispatch / Completion / Stop messages, with dead-worker   *)
(* timeouts and a checkpoint folder that survives a restart of the job.    *)
(*                                                                         *)
(* Conventions.                                                            *)
(*  - Python lists are sequences; a Python index i is position i+1 here.   *)
(*    The values stored in maps are the code's: 0 Pending, -1 Done, and    *)
(*    r >= 1 Assigned to the worker of rank r.                             *)
(*  - A Python dict of counts is a record [dflt, d]: d is a function whose *)
(*    domain is the set of keys present, dflt says whether the object is   *)
(*    a defaultdict(int) (a missing key reads as 0) or a plain dict (a     *)
(*    missing key raises KeyError).  JSON keeps d only.                    *)
(*  - A time stamp taken with time.time() is stored as the time elapsed    *)
(*    since it was taken (0 when taken, advanced by Tick, saturating once  *)
(*    it is past every threshold), so time.time() - t is the stored value. *)
(*    The literal 0.0 of the timers list (never stamped / cleared) is      *)
(*    Cleared.                                                             *)
(***************************************************************************)
EXTENDS Integers, Sequences, FiniteSets, TLC

\* ----------------------------------------------------------------- bounds
\* number of MPI processes (rank 0 is the master, ranks 1..size-1 the workers)
size == 3
\* largest number of .log files in the log directory
MaxFiles == 21
\* how often the whole job may be killed and started again
MaxRestarts == 1
\* seconds that pass in one Tick
TickLen == 3

\* ------------------------------------------------------- program constants
\* units per batch
BatchSize == 10
\* dead-worker timeout, seconds
Timeout == 5
\* checkpoint cadence, seconds
CheckpointInterval == 5

Workers == 1..(size - 1)
\* the directory sizes tried: one file, the three files of the spec's scenario A,
\* one batch, one file more than a batch, and the largest
FileCounts == {1, 3, BatchSize, BatchSize + 1, MaxFiles}
Cleared == -1
Saturated == (IF Timeout > CheckpointInterval THEN Timeout ELSE CheckpointInterval) + 1

PENDING == 0
DONE == -1

VARIABLES
    nfiles,        \* number of .log files in the log directory (input)
    disk,          \* checkpoint/checkpoint.json on disk
    damaged,       \* the checkpoint on disk was altered by something other than the program
    restarts,      \* how often the job was restarted
    pc,            \* where the master is
    log_files, maps, total_counts, recieved, timers, results, checkpointer,
    saving,        \* the save_checkpoint call in progress: its data and its caller
    first_indices, \* the positions picked for the initial dispatch
    dispatch_i,    \* the loop variable i of the initial dispatch
    inbox,         \* inbox[w]: messages sent by the master to worker w, not yet received
    outbox,        \* outbox[w]: completions sent by worker w, not yet received by the master
    wstate,        \* wstate[w]: "running", "stopped" (left its loop) or "crashed"
    sent,          \* the Dispatch that is sent and not yet written into maps, if any
    comm_size,     \* comm.Get_size(), where the process count is an input of the run
    chunked        \* the list the static variant hands to comm.scatter

vars == <<nfiles, disk, damaged, restarts, pc, log_files, maps, total_counts,
          recieved, timers, results, checkpointer, saving, first_indices, dispatch_i,
          inbox, outbox, wstate, sent, comm_size, chunked>>

\* ---------------------------------------------------------------- helpers
Min(a, b) == IF a < b THEN a ELSE b

Range(s) == {s[i] : i \in 1..Len(s)}

\* list.index(v): the first position holding v
IndexOf(s, v) == CHOOSE i \in 1..Len(s) : s[i] = v /\ \A j \in 1..(i - 1) : s[j] # v

\* [v] * n
Repeat(v, n) == [i \in 1..n |-> v]

EmptyDefaultDict == [dflt |-> TRUE, d |-> <<>>]

\* dict.get(key, 0) on the key/value part of a dict
GetOr0(d, k) == IF k \in DOMAIN d THEN d[k] ELSE 0

\* ------------------------------------------------------------ file analysis
\* The log level of each line of file f (the input data): the three files of
\* the spec's scenario A, repeated.
LinesOf(f) ==
    CASE f % 3 = 1 -> <<"INFO", "INFO">>
      [] f % 3 = 2 -> <<"ERROR">>
      [] OTHER     -> <<"INFO", "WARN">>

RECURSIVE CountLines(_, _)
CountLines(lines, counts) ==
    IF lines = <<>> THEN counts
    ELSE LET level == Head(lines)
         IN CountLines(Tail(lines),
                [k \in DOMAIN counts \cup {level} |->
                    IF k = level THEN GetOr0(counts, k) + 1 ELSE counts[k]])

analyse_log_file(f) == [dflt |-> TRUE, d |-> CountLines(LinesOf(f), <<>>)]

\* merge_counts with = in place of +=: the count of a level is overwritten
merge_counts_Overwrite(total, new) ==
    [err |-> FALSE,
     counts |-> [dflt |-> total.dflt,
                 d |-> [k \in DOMAIN total.d \cup DOMAIN new.d |->
                           IF k \in DOMAIN new.d THEN new.d[k] ELSE total.d[k]]]]

\* merge_counts(total_counts, new_counts): total_counts[level] += count for
\* every item of new_counts.  err: the += raised KeyError (total_counts is a
\* plain dict that lacks one of the levels).
merge_counts(total, new) ==
    IF ~total.dflt /\ ~(DOMAIN new.d \subseteq DOMAIN total.d)
    THEN [err |-> TRUE, counts |-> total]
    ELSE [err |-> FALSE,
          counts |-> [dflt |-> total.dflt,
                      d |-> [k \in DOMAIN total.d \cup DOMAIN new.d |->
                                GetOr0(total.d, k) + GetOr0(new.d, k)]]]

\* for result in results: merge_counts(total, new_counts=result)
\* The loop stops at the first KeyError.  (The merged value is bound by a
\* one-element set so that it is computed once per pass.)
RECURSIVE MergeAll(_, _)
MergeAll(total, rs) ==
    IF rs = <<>> THEN [err |-> FALSE, counts |-> total]
    ELSE CHOOSE r \in {IF m.err THEN m ELSE MergeAll(m.counts, Tail(rs)) :
                          m \in {merge_counts(total, Head(rs))}} : TRUE

\* --------------------------------------------------------------- messages
\* comm.send(None, w, tag=3)
StopMsg == [type |-> "stop", batch |-> <<>>]
\* comm.send([{"file": ..., "index": ...}, ...], w, tag=1)
TaskMsg(batch) == [type |-> "task", batch |-> batch]

\* [{"file": log_files[i], "index": i} for i in idxs]
MakeBatch(files, idxs) == [k \in 1..Len(idxs) |-> [file |-> files[idxs[k]], index |-> idxs[k]]]

\* the positions of the Pending units, ascending
PendingIndices(mp) ==
    LET IsPending(i) == mp[i] = PENDING
    IN SelectSeq([i \in 1..Len(mp) |-> i], IsPending)

\* ------------------------------------------------------------- checkpoint
NoCheckpoint == [kind |-> "absent", has |-> {}, counts |-> <<>>,
                 processed_files |-> <<>>, pending_files |-> <<>>]
\* checkpoint.json exists and its content is not a JSON document
\* (opened for writing and not yet written and closed, or garbled)
Unparseable == [kind |-> "partial", has |-> {}, counts |-> <<>>,
                processed_files |-> <<>>, pending_files |-> <<>>]
\* JsonRecord with the units that are Assigned listed as processed
JsonRecord_AssignedAsProcessed(counts, files, mp) ==
    LET IsDone(i) == mp[i] # PENDING
        NotDone(i) == mp[i] = PENDING
        pos == [i \in 1..Len(mp) |-> i]
        done == SelectSeq(pos, IsDone)
        todo == SelectSeq(pos, NotDone)
    IN [kind |-> "json",
        has |-> {"counts", "processed_files", "pending_files"},
        counts |-> counts.d,
        processed_files |-> [k \in 1..Len(done) |-> files[done[k]]],
        pending_files |-> [k \in 1..Len(todo) |-> files[todo[k]]]]

\* json.dump of {"timestamp", "counts", "processed_files", "pending_files"};
\* the timestamp is never read back and is left out
JsonRecord(counts, files, mp) ==
    LET IsDone(i) == mp[i] = DONE
        NotDone(i) == mp[i] # DONE
        pos == [i \in 1..Len(mp) |-> i]
        done == SelectSeq(pos, IsDone)
        todo == SelectSeq(pos, NotDone)
    IN [kind |-> "json",
        has |-> {"counts", "processed_files", "pending_files"},
        counts |-> counts.d,
        processed_files |-> [k \in 1..Len(done) |-> files[done[k]]],
        pending_files |-> [k \in 1..Len(todo) |-> files[todo[k]]]]

NoSave == [caller |-> "none", data |-> NoCheckpoint]

\* no Dispatch is between its comm.send and the update of maps
NoSend == [to |-> 0, idxs |-> <<>>]

\* ------------------------------------------------------------------- Init
FreshMemory ==
    /\ pc = "start"
    /\ log_files = <<>>
    /\ maps = <<>>
    /\ total_counts = EmptyDefaultDict
    /\ recieved = 0
    /\ timers = Repeat(Cleared, size)
    /\ results = <<>>
    /\ checkpointer = 0
    /\ saving = NoSave
    /\ first_indices = <<>>
    /\ dispatch_i = 1
    /\ inbox = [w \in Workers |-> <<>>]
    /\ outbox = [w \in Workers |-> <<>>]
    /\ wstate = [w \in Workers |-> "running"]
    /\ sent = NoSend

Init ==
    /\ nfiles \in FileCounts
    /\ disk = NoCheckpoint
    /\ damaged = FALSE
    /\ restarts = 0
    /\ comm_size = size
    /\ chunked = <<>>
    /\ FreshMemory

\* ------------------------------------------------------ master: start-up
\* the state loaded from checkpoint.json, or built from the directory listing
LoadedFiles ==
    IF disk.kind = "json"
    THEN (IF "processed_files" \in disk.has THEN disk.processed_files ELSE <<>>)
         \o (IF "pending_files" \in disk.has THEN disk.pending_files ELSE <<>>)
    ELSE [i \in 1..nfiles |-> i]

LoadedMaps ==
    IF disk.kind = "json"
    THEN Repeat(DONE, IF "processed_files" \in disk.has THEN Len(disk.processed_files) ELSE 0)
         \o Repeat(PENDING, IF "pending_files" \in disk.has THEN Len(disk.pending_files) ELSE 0)
    ELSE Repeat(PENDING, nfiles)

LoadedCounts ==
    IF disk.kind = "json"
    THEN [dflt |-> FALSE, d |-> IF "counts" \in disk.has THEN disk.counts ELSE <<>>]
    ELSE EmptyDefaultDict

LoadedRecieved ==
    IF disk.kind = "json" /\ "processed_files" \in disk.has
    THEN Len(disk.processed_files) ELSE 0

\* first_indices without the test maps[i] == 0: the first 10*(size-1) positions
FirstIndices_AnyState(mp) == [i \in 1..Min(Len(mp), BatchSize * (size - 1)) |-> i]

\* first_indices: the first 10*(size-1) Pending positions
FirstIndices(mp) ==
    LET pend == PendingIndices(mp)
    IN SubSeq(pend, 1, Min(Len(pend), BatchSize * (size - 1)))

\* the slice of first_indices sent to worker i
InitialSlice(first, i) ==
    SubSeq(first, (i - 1) * BatchSize + 1, Min(i * BatchSize, Len(first)))

\* The master up to the dispatch loop: the checkpoint is loaded if
\* checkpoint.json exists, else the directory is listed; first_indices is built.
Start ==
    /\ pc = "start"
    /\ IF disk.kind = "partial"
       THEN \* json.load raises JSONDecodeError
            /\ pc' = "JSONDecodeError"
            /\ UNCHANGED <<log_files, maps, total_counts, recieved, first_indices>>
       ELSE /\ pc' = IF LoadedFiles = <<>>
                     THEN "exit1"           \* "No .log files found": sys.exit(1)
                     ELSE "dispatching"
            /\ log_files' = LoadedFiles
            /\ maps' = LoadedMaps
            /\ total_counts' = LoadedCounts
            /\ recieved' = LoadedRecieved
            /\ first_indices' = FirstIndices(LoadedMaps)
    /\ UNCHANGED <<nfiles, disk, damaged, restarts, timers, results, checkpointer,
                   saving, dispatch_i, inbox, outbox, wstate, sent, comm_size, chunked>>

\* one pass of "for i in range(1, size)": the command of worker i is sent, its
\* timer stamped and its positions of maps set to i
InitialDispatch ==
    /\ pc = "dispatching"
    /\ dispatch_i < size
    /\ LET slice == InitialSlice(first_indices, dispatch_i)
       IN /\ inbox' = [inbox EXCEPT ![dispatch_i] = Append(@, TaskMsg(MakeBatch(log_files, slice)))]
          /\ timers' = [timers EXCEPT ![dispatch_i] = 0]
          /\ maps' = [p \in 1..Len(maps) |-> IF p \in Range(slice) THEN dispatch_i ELSE maps[p]]
    /\ dispatch_i' = dispatch_i + 1
    /\ UNCHANGED <<nfiles, disk, damaged, restarts, pc, log_files, total_counts, recieved,
                   results, checkpointer, saving, first_indices, outbox, wstate, sent, comm_size, chunked>>

\* after the dispatch loop: rec = comm.irecv(...); checkpointer = time.time()
StartMonitoring ==
    /\ pc = "dispatching"
    /\ dispatch_i = size
    /\ checkpointer' = 0
    /\ pc' = "monitoring"
    /\ UNCHANGED <<nfiles, disk, damaged, restarts, log_files, maps, total_counts, recieved,
                   timers, results, saving, first_indices, dispatch_i, inbox, outbox, wstate, sent, comm_size, chunked>>

\* ------------------------------------------------ master: monitoring loop
\* while 0 in maps or recieved < len(log_files)
LoopCondition == PENDING \in Range(maps) \/ recieved < Len(log_files)

\* TimeoutScanFrom with a reclaim that sets every Assigned unit back to Pending,
\* whichever worker holds it
RECURSIVE TimeoutScanFrom_ReclaimAll(_, _)
TimeoutScanFrom_ReclaimAll(k, st) ==
    IF k > Len(st.timers) THEN st
    ELSE LET t == st.timers[k]
         IN IF t # Cleared /\ t > Timeout
            THEN LET w == IndexOf(st.timers, t)
                 IN TimeoutScanFrom_ReclaimAll(k + 1,
                       [timers |-> [st.timers EXCEPT ![w] = Cleared],
                        maps   |-> [i \in 1..Len(st.maps) |->
                                       IF st.maps[i] > 0 THEN PENDING ELSE st.maps[i]],
                        inbox  |-> [st.inbox EXCEPT ![w] = Append(@, StopMsg)]])
            ELSE TimeoutScanFrom_ReclaimAll(k + 1, st)

\* One pass of "for t in timers" from position k on.  st = [timers, maps, inbox].
\* timers.index(t) is the first position holding the value t; position p is the
\* timer of the worker of rank p.
RECURSIVE TimeoutScanFrom(_, _)
TimeoutScanFrom(k, st) ==
    IF k > Len(st.timers) THEN st
    ELSE LET t == st.timers[k]
         IN IF t # Cleared /\ t > Timeout
            THEN LET w == IndexOf(st.timers, t)
                 IN TimeoutScanFrom(k + 1,
                       [timers |-> [st.timers EXCEPT ![w] = Cleared],
                        maps   |-> [i \in 1..Len(st.maps) |->
                                       IF st.maps[i] = w THEN PENDING ELSE st.maps[i]],
                        inbox  |-> [st.inbox EXCEPT ![w] = Append(@, StopMsg)]])
            ELSE TimeoutScanFrom(k + 1, st)

TimeoutScan == TimeoutScanFrom(1, [timers |-> timers, maps |-> maps, inbox |-> inbox])

\* rec.test() finds no completion and no checkpoint is due: the timeout scan
PollIdle ==
    /\ pc = "monitoring"
    /\ LoopCondition
    /\ ~(checkpointer > CheckpointInterval)
    /\ LET st == TimeoutScan
       IN /\ timers' = st.timers
          /\ maps' = st.maps
          /\ inbox' = st.inbox
    /\ UNCHANGED <<first_indices, dispatch_i, nfiles, disk, damaged, restarts, pc, log_files, total_counts,
                   recieved, results, checkpointer, saving, outbox, wstate, sent, comm_size, chunked>>

\* the counts of a periodic checkpoint: the results list merged into a new defaultdict
PeriodicCounts == MergeAll(EmptyDefaultDict, results).counts

\* rec.test() finds no completion and a checkpoint is due: save_checkpoint is
\* called with the record built from results and maps
PollCheckpoint ==
    /\ pc = "monitoring"
    /\ LoopCondition
    /\ checkpointer > CheckpointInterval
    /\ checkpointer' = 0
    /\ saving' = [caller |-> "periodic",
                  data |-> JsonRecord(PeriodicCounts, log_files, maps)]
    /\ pc' = "save_rmtree"
    /\ UNCHANGED <<first_indices, dispatch_i, nfiles, disk, damaged, restarts, log_files, maps, total_counts,
                   recieved, timers, results, inbox, outbox, wstate, sent, comm_size, chunked>>

\* NextFiles with the test maps[i] <= 0 in place of maps[i] == 0: Done units are taken too
NextFiles_DoneToo(mp) ==
    LET NotAssigned(i) == mp[i] <= 0
        cand == SelectSeq([i \in 1..Len(mp) |-> i], NotAssigned)
    IN SubSeq(cand, 1, Min(Len(cand), BatchSize))

\* NextFiles without the bound len(next_files) < 10: every Pending position
NextFiles_Unbounded(mp) == PendingIndices(mp)

\* next_files: the first 10 Pending positions
NextFiles(mp) ==
    LET pend == PendingIndices(mp)
    IN SubSeq(pend, 1, Min(Len(pend), BatchSize))

\* maps after a completion carrying the index list idx
CompletedMaps(mp, idx) ==
    [i \in 1..Len(mp) |-> IF i \in Range(idx) THEN DONE ELSE mp[i]]

\* Receive without the guard "if 0 in maps": a batch, possibly empty, is sent
\* back after every completion
Receive_AlwaysDispatch(w) ==
    /\ pc = "monitoring"
    /\ LoopCondition
    /\ outbox[w] # <<>>
    /\ LET result == Head(outbox[w])
           done == CompletedMaps(maps, result.index)
           next_files == NextFiles(done)
       IN /\ recieved' = recieved + Len(result.result)
          /\ results' = results \o result.result
          /\ timers' = [timers EXCEPT ![result.worker] = 0]
          /\ inbox' = [inbox EXCEPT ![result.worker] =
                          Append(@, TaskMsg(MakeBatch(log_files, next_files)))]
          /\ maps' = [i \in 1..Len(done) |->
                         IF i \in Range(next_files) THEN result.worker ELSE done[i]]
    /\ outbox' = [outbox EXCEPT ![w] = Tail(@)]
    /\ UNCHANGED <<first_indices, dispatch_i, nfiles, disk, damaged, restarts, pc, log_files, total_counts,
                   checkpointer, saving, wstate, sent, comm_size, chunked>>

\* rec.test() returns the completion at the head of worker w's channel
Receive(w) ==
    /\ pc = "monitoring"
    /\ LoopCondition
    /\ outbox[w] # <<>>
    /\ LET result == Head(outbox[w])
           done == CompletedMaps(maps, result.index)
           next_files == NextFiles(done)
       IN /\ recieved' = recieved + Len(result.result)
          /\ results' = results \o result.result
          /\ timers' = [timers EXCEPT ![result.worker] = 0]
          /\ IF PENDING \in Range(done)
             THEN /\ inbox' = [inbox EXCEPT ![result.worker] =
                                  Append(@, TaskMsg(MakeBatch(log_files, next_files)))]
                  /\ maps' = [i \in 1..Len(done) |->
                                 IF i \in Range(next_files) THEN result.worker ELSE done[i]]
             ELSE /\ inbox' = inbox
                  /\ maps' = done
    /\ outbox' = [outbox EXCEPT ![w] = Tail(@)]
    /\ UNCHANGED <<first_indices, dispatch_i, nfiles, disk, damaged, restarts, pc, log_files, total_counts,
                   checkpointer, saving, wstate, sent, comm_size, chunked>>

\* LoopExit with a stop broadcast that leaves out the workers whose timer is
\* cleared (declared dead by a timeout scan)
LoopExit_SkipsDeclaredDead ==
    /\ pc = "monitoring"
    /\ ~LoopCondition
    /\ inbox' = [w \in Workers |->
                    IF timers[w] = Cleared THEN inbox[w] ELSE Append(inbox[w], StopMsg)]
    /\ LET m == MergeAll(total_counts, results)
       IN IF m.err
          THEN /\ pc' = "KeyError"
               /\ UNCHANGED <<total_counts, saving>>
          ELSE /\ total_counts' = m.counts
               /\ saving' = [caller |-> "final",
                             data |-> JsonRecord(m.counts, log_files, maps)]
               /\ pc' = "save_rmtree"
    /\ UNCHANGED <<first_indices, dispatch_i, nfiles, disk, damaged, restarts, log_files, maps, recieved,
                   timers, results, checkpointer, outbox, wstate, sent, comm_size, chunked>>

\* The loop condition is false: Stop to every worker, the final merge of results
\* into total_counts, and the call of save_checkpoint for the final record.
LoopExit ==
    /\ pc = "monitoring"
    /\ ~LoopCondition
    /\ inbox' = [w \in Workers |-> Append(inbox[w], StopMsg)]
    /\ LET m == MergeAll(total_counts, results)
       IN IF m.err
          THEN \* KeyError in merge_counts
               /\ pc' = "KeyError"
               /\ UNCHANGED <<total_counts, saving>>
          ELSE /\ total_counts' = m.counts
               /\ saving' = [caller |-> "final",
                             data |-> JsonRecord(m.counts, log_files, maps)]
               /\ pc' = "save_rmtree"
    /\ UNCHANGED <<first_indices, dispatch_i, nfiles, disk, damaged, restarts, log_files, maps, recieved,
                   timers, results, checkpointer, outbox, wstate, sent, comm_size, chunked>>

\* --------------------------------------------------------- save_checkpoint
\* if os.path.exists(folder): shutil.rmtree(folder)
SaveRmtree ==
    /\ pc = "save_rmtree"
    /\ disk' = NoCheckpoint
    /\ pc' = "save_open"
    /\ UNCHANGED <<first_indices, dispatch_i, nfiles, damaged, restarts, log_files, maps, total_counts, recieved,
                   timers, results, checkpointer, saving, inbox, outbox, wstate, sent, comm_size, chunked>>

\* os.makedirs(folder); open(json_path, "w"): the file exists and is empty
SaveOpen ==
    /\ pc = "save_open"
    /\ disk' = Unparseable
    /\ pc' = "save_write"
    /\ UNCHANGED <<first_indices, dispatch_i, nfiles, damaged, restarts, log_files, maps, total_counts, recieved,
                   timers, results, checkpointer, saving, inbox, outbox, wstate, sent, comm_size, chunked>>

\* json.dump and the close of the file; save_checkpoint returns.  The periodic
\* caller goes on with the timeout scan of the same loop pass, the final caller
\* prints the results and ends.
SaveWrite ==
    /\ pc = "save_write"
    /\ disk' = saving.data
    /\ saving' = NoSave
    /\ IF saving.caller = "periodic"
       THEN LET st == TimeoutScan
            IN /\ timers' = st.timers
               /\ maps' = st.maps
               /\ inbox' = st.inbox
               /\ pc' = "monitoring"
       ELSE /\ pc' = "terminated"
            /\ UNCHANGED <<timers, maps, inbox>>
    /\ UNCHANGED <<first_indices, dispatch_i, nfiles, damaged, restarts, log_files, total_counts, recieved,
                   results, checkpointer, outbox, wstate, sent, comm_size, chunked>>

\* a step of save_checkpoint raises OSError (storage error); nothing catches it
SaveError ==
    /\ pc \in {"save_rmtree", "save_open", "save_write"}
    /\ pc' = "OSError"
    /\ UNCHANGED <<first_indices, dispatch_i, nfiles, disk, damaged, restarts, log_files, maps, total_counts,
                   recieved, timers, results, checkpointer, saving, inbox, outbox, wstate, sent, comm_size, chunked>>

\* ----------------------------------------------------------------- worker
\* Completion with the index list in reverse order
Completion_ReversedIndex(w, task) ==
    [result |-> [k \in 1..Len(task) |-> analyse_log_file(task[k].file)],
     index  |-> [k \in 1..Len(task) |-> task[Len(task) + 1 - k].index],
     worker |-> w]

\* {"result": [analyse_log_file(t["file"]) for t in task],
\*  "index": [t["index"] for t in task], "worker": rank}
Completion(w, task) ==
    [result |-> [k \in 1..Len(task) |-> analyse_log_file(task[k].file)],
     index  |-> [k \in 1..Len(task) |-> task[k].index],
     worker |-> w]

\* task = comm.recv(source=0): leave the loop on None, else analyse and report
WorkerStep(w) ==
    /\ wstate[w] = "running"
    /\ inbox[w] # <<>>
    /\ LET task == Head(inbox[w])
       IN IF task.type = "stop"
          THEN /\ wstate' = [wstate EXCEPT ![w] = "stopped"]
               /\ outbox' = outbox
          ELSE /\ outbox' = [outbox EXCEPT ![w] = Append(@, Completion(w, task.batch))]
               /\ wstate' = wstate
    /\ inbox' = [inbox EXCEPT ![w] = Tail(@)]
    /\ UNCHANGED <<first_indices, dispatch_i, nfiles, disk, damaged, restarts, pc, log_files, maps, total_counts,
                   recieved, timers, results, checkpointer, saving, sent, comm_size, chunked>>

\* ------------------------------------------------------------ environment
\* a worker process dies (the commented-out "Simulating crash" of the source)
WorkerCrash(w) ==
    /\ wstate[w] = "running"
    /\ pc \in {"dispatching", "monitoring", "save_rmtree", "save_open", "save_write"}
    /\ wstate' = [wstate EXCEPT ![w] = "crashed"]
    /\ UNCHANGED <<first_indices, dispatch_i, nfiles, disk, damaged, restarts, pc, log_files, maps, total_counts,
                   recieved, timers, results, checkpointer, saving, inbox, outbox, sent, comm_size, chunked>>

\* TickLen seconds pass
Age(t) == IF t = Cleared THEN Cleared ELSE Min(t + TickLen, Saturated)

Tick ==
    /\ pc \in {"dispatching", "monitoring", "save_rmtree", "save_open", "save_write"}
    /\ timers' = [p \in 1..Len(timers) |-> Age(timers[p])]
    /\ checkpointer' = Age(checkpointer)
    /\ UNCHANGED <<first_indices, dispatch_i, nfiles, disk, damaged, restarts, pc, log_files, maps, total_counts,
                   recieved, results, saving, inbox, outbox, wstate, sent, comm_size, chunked>>

\* the whole job (master and workers) is killed, wherever it is, and started
\* again on the same directory; only the checkpoint folder survives
Restart ==
    /\ restarts < MaxRestarts
    /\ pc # "start"
    /\ restarts' = restarts + 1
    /\ pc' = "start"
    /\ log_files' = <<>>
    /\ maps' = <<>>
    /\ total_counts' = EmptyDefaultDict
    /\ recieved' = 0
    /\ timers' = Repeat(Cleared, size)
    /\ results' = <<>>
    /\ checkpointer' = 0
    /\ saving' = NoSave
    /\ first_indices' = <<>>
    /\ dispatch_i' = 1
    /\ inbox' = [w \in Workers |-> <<>>]
    /\ outbox' = [w \in Workers |-> <<>>]
    /\ wstate' = [w \in Workers |-> "running"]
    /\ sent' = NoSend
    /\ UNCHANGED <<nfiles, disk, damaged, comm_size, chunked>>

\* between two runs the checkpoint file is garbled, or loses one of its fields
DamageCheckpoint ==
    /\ pc = "start"
    /\ disk.kind = "json"
    /\ ~damaged
    /\ damaged' = TRUE
    /\ \/ disk' = Unparseable
       \/ \E f \in disk.has : disk' = [disk EXCEPT !.has = @ \ {f}]
    /\ UNCHANGED <<first_indices, dispatch_i, nfiles, restarts, pc, log_files, maps, total_counts, recieved,
                   timers, results, checkpointer, saving, inbox, outbox, wstate, sent, comm_size, chunked>>

Next ==
    \/ Start
    \/ InitialDispatch
    \/ StartMonitoring
    \/ PollIdle
    \/ PollCheckpoint
    \/ \E w \in Workers : Receive(w)
    \/ LoopExit
    \/ SaveRmtree
    \/ SaveOpen
    \/ SaveWrite
    \/ SaveError
    \/ \E w \in Workers : WorkerStep(w)
    \/ \E w \in Workers : WorkerCrash(w)
    \/ Tick
    \/ Restart
    \/ DamageCheckpoint

Spec == Init /\ [][Next]_vars

\* -------------------------------------------- runs with a dead worker only
\* The runs the liveness claims are about: the job is not restarted, storage
\* does not fail, and the worker of rank Responsive never dies and answers at
\* once: no time passes while a message for it or a completion from it is in
\* flight.  Every other worker may die at any moment.
Responsive == 1

CrashOther(w) == w # Responsive /\ WorkerCrash(w)

ResponsiveTick == inbox[Responsive] = <<>> /\ outbox[Responsive] = <<>> /\ Tick

MasterStep ==
    \/ Start
    \/ InitialDispatch
    \/ StartMonitoring
    \/ PollIdle
    \/ PollCheckpoint
    \/ \E w \in Workers : Receive(w)
    \/ LoopExit
    \/ SaveRmtree
    \/ SaveOpen
    \/ SaveWrite

LiveNext ==
    \/ MasterStep
    \/ \E w \in Workers : WorkerStep(w)
    \/ \E w \in Workers : CrashOther(w)
    \/ ResponsiveTick

\* The master keeps running its loop, a completion that has arrived is found by
\* one of the next polls, a worker that is not dead takes its next message,
\* and time passes.
LiveSpec ==
    /\ Init
    /\ [][LiveNext]_vars
    /\ WF_vars(MasterStep)
    /\ \A w \in Workers : SF_vars(Receive(w))
    /\ \A w \in Workers : WF_vars(WorkerStep(w))
    /\ WF_vars(ResponsiveTick)

\* ===================================================================
\* Claims
\* ===================================================================
AllDone == \A p \in 1..Len(maps) : maps[p] = DONE

\* the aggregate of a sequential pass over the nfiles files of the directory
CleanAggregate == MergeAll(EmptyDefaultDict, [f \in 1..nfiles |-> analyse_log_file(f)]).counts.d

\* the master is past its monitoring loop
PastLoop == \/ pc = "terminated"
            \/ pc \in {"save_rmtree", "save_open", "save_write"} /\ saving.caller = "final"

\* C1: in a run started on a directory without a checkpoint, the final
\* aggregate holds the PartialResult of every unit exactly once: it equals the
\* aggregate of a sequential pass over all files.
C1_AggregateHoldsEachUnitOnce ==
    (restarts = 0 /\ PastLoop) => total_counts.d = CleanAggregate

\* C2: the master leaves the monitoring loop only when every unit is Done.
C2_LoopExitOnlyWhenAllDone ==
    (~damaged /\ PastLoop) => AllDone

\* a dead worker holds units
DeadWorkerHoldsBatch == \E w \in Workers : wstate[w] = "crashed" /\ w \in Range(maps)

\* C3: when a worker has died holding a batch and another worker stays alive
\* and responsive, the run eventually reaches Terminated with every unit Done.
C3_DeadWorkerRunTerminates ==
    DeadWorkerHoldsBatch ~> (pc = "terminated" /\ AllDone)

\* C4: when the master handles a Completion from worker w, a reported unit that
\* is Assigned to w becomes Done, and a reported unit that is Pending, Assigned
\* to another worker or already Done is not made Done by this Completion.
C4_CompletionMarksOnlyOwnUnits ==
    [][\A w \in Workers :
          Receive(w) =>
              \A p \in Range(Head(outbox[w]).index) :
                  \/ maps[p] = w /\ maps'[p] = DONE
                  \/ maps[p] = DONE /\ maps'[p] = DONE
                  \/ maps[p] \notin {w, DONE} /\ maps'[p] # DONE]_vars

\* C5: a run resumed from a checkpoint the program wrote ends normally (its
\* final merge does not raise), and when it has completed each remaining unit
\* once its final aggregate is that of a clean run over all files.
C5_ResumeFidelity ==
    ~damaged =>
        /\ pc # "KeyError"
        /\ (restarts > 0 /\ pc = "terminated" /\ AllDone /\ recieved = Len(log_files))
               => total_counts.d = CleanAggregate

\* the sum of the PartialResults of the files of a list
CountsOfFiles(files) ==
    MergeAll(EmptyDefaultDict, [j \in 1..Len(files) |-> analyse_log_file(files[j])]).counts.d

\* the number of units that are Done
DoneCount == Cardinality({p \in 1..Len(maps) : maps[p] = DONE})

\* C6: the counts of the checkpoint record that save_checkpoint is writing are
\* the sum of the PartialResults of exactly the files of its processed_files,
\* in a fresh and in a resumed run, when no unit was reported twice so far.
C6_CheckpointCountsMatchProcessed ==
    (~damaged /\ pc \in {"save_rmtree", "save_open", "save_write"} /\ recieved = DoneCount)
        => saving.data.counts = CountsOfFiles(saving.data.processed_files)

\* C7: when a run has reached Terminated, the record on disk is the final
\* checkpoint, its pending_files is empty and its processed_files lists every unit.
C7_TerminatedCheckpointComplete ==
    (~damaged /\ pc = "terminated") =>
        /\ disk.kind = "json"
        /\ disk.pending_files = <<>>
        /\ Len(disk.processed_files) = Len(log_files)
        /\ Range(disk.processed_files) = Range(log_files)

\* C8: whenever the job starts, checkpoint.json is absent or holds a complete
\* record whose processed and pending files are disjoint, also after a kill of
\* the job between the steps of save_checkpoint.
C8_StartFindsNoneOrCompleteRecord ==
    (~damaged /\ pc = "start") =>
        \/ disk.kind = "absent"
        \/ /\ disk.kind = "json"
           /\ Range(disk.processed_files) \cap Range(disk.pending_files) = {}

\* C9: a storage error inside the save_checkpoint of a periodic checkpoint does
\* not end the run.
C9_PeriodicSaveErrorNotFatal ==
    ~(pc = "OSError" /\ saving.caller = "periodic")

\* C10: the master dispatches only when the checkpoint it found at start-up was
\* absent or a record with all of counts, processed_files and pending_files.
C10_NoDispatchFromCorruptCheckpoint ==
    pc = "dispatching" =>
        \/ disk.kind = "absent"
        \/ /\ disk.kind = "json"
           /\ disk.has = {"counts", "processed_files", "pending_files"}

\* save_checkpoint is running
Saving == pc \in {"save_rmtree", "save_open", "save_write"}

\* C11: in the checkpoint record that save_checkpoint is writing (periodic or
\* final), processed_files and pending_files are disjoint and together list
\* every unit of the run exactly once; a unit that is Done is in
\* processed_files and every other unit, an Assigned one included, is in
\* pending_files.
C11_CheckpointPartitionsUnits ==
    Saving =>
        LET processed == saving.data.processed_files
            pending == saving.data.pending_files
        IN /\ saving.data.kind = "json"
           /\ Range(processed) \cap Range(pending) = {}
           /\ Range(processed) \cup Range(pending) = Range(log_files)
           /\ Len(processed) + Len(pending) = Len(log_files)
           /\ Cardinality(Range(log_files)) = Len(log_files)
           /\ \A p \in 1..Len(maps) :
                 IF maps[p] = DONE THEN log_files[p] \in Range(processed)
                                   ELSE log_files[p] \in Range(pending)

\* a periodic record is being written while one unit is Assigned and one is Done
C11_Witness ==
    /\ pc = "save_write"
    /\ saving.caller = "periodic"
    /\ \E p \in 1..Len(maps) : maps[p] \in Workers
    /\ \E p \in 1..Len(maps) : maps[p] = DONE

\* C12: within one run of the master, a unit that is Done stays Done under
\* every step (dispatch, completion, duplicate or stale completion, timeout
\* reclaim, checkpoint).
C12_DoneIsFinal ==
    [][restarts' = restarts =>
          \A p \in 1..Len(maps) :
              maps[p] = DONE => (p \in 1..Len(maps') /\ maps'[p] = DONE)]_vars

\* a completion that reports a unit which is already Done is about to be handled,
\* after a timeout reclaim
C12_Witness ==
    /\ pc = "monitoring"
    /\ \E w \in Workers :
          /\ timers[w] = Cleared
          /\ outbox[w] # <<>>
          /\ \E p \in Range(Head(outbox[w]).index) : maps[p] = DONE

\* ------------------------------------------------- runs without a timeout
\* The runs of claim C13: one launch on a directory without a checkpoint, no
\* worker dies, storage does not fail, and time passes only as long as no
\* timer grows past Timeout, so that the timeout scan never finds a worker.
\* The completions of the workers arrive in every order.
CalmTick == Tick /\ \A p \in 1..Len(timers) : timers'[p] <= Timeout

CalmNext ==
    \/ MasterStep
    \/ \E w \in Workers : WorkerStep(w)
    \/ CalmTick

CalmSpec == Init /\ [][CalmNext]_vars

\* the aggregate of the three files of the spec's scenario A
ScenarioA == [k \in {"INFO", "ERROR", "WARN"} |-> IF k = "INFO" THEN 3 ELSE 1]

\* C13: in a run without timeouts the final aggregate and the final unit
\* states do not depend on the order in which the completions of the workers
\* arrive: in every such run the aggregate is that of a sequential pass over
\* the files and every unit is Done; for the three files of scenario A it is
\* {INFO: 3, ERROR: 1, WARN: 1}.
C13_ArrivalOrderIrrelevant ==
    PastLoop =>
        /\ AllDone
        /\ total_counts.d = CleanAggregate
        /\ nfiles = 3 => total_counts.d = ScenarioA

\* a run of MaxFiles files has ended in which the completion of worker 2 (whose
\* first file holds an ERROR line) arrived before that of worker 1
C13_Witness ==
    /\ pc = "terminated"
    /\ nfiles = MaxFiles
    /\ Len(results) = nfiles
    /\ "ERROR" \in DOMAIN results[1].d

\* C14: the timeout scan declares a worker dead (clears its timer and sends
\* it Stop) only if its timer is older than Timeout and the worker still has a
\* unit Assigned to it.
C14_TimeoutOnlyForHoldingWorker ==
    [][restarts' = restarts =>
          \A w \in Workers :
              (timers[w] # Cleared /\ timers'[w] = Cleared)
                  => (timers[w] > Timeout /\ w \in Range(maps))]_vars

\* the workers that the step declares dead: their timer is cleared by it
DeclaredDead == {w \in Workers : timers[w] # Cleared /\ timers'[w] = Cleared}

\* C15: a timeout scan that declares workers dead sets exactly the units
\* Assigned to them back to Pending and leaves every other unit as it was,
\* leaves the collected results unchanged, clears exactly the timers of the
\* workers declared dead and sends Stop to exactly them; the workers declared
\* dead are those whose timer is older than Timeout, also when several timers
\* hold the same time stamp or expire in the same scan.
C15_ReclaimFrame ==
    [][(restarts' = restarts /\ DeclaredDead # {}) =>
          /\ DeclaredDead = {w \in Workers : timers[w] # Cleared /\ timers[w] > Timeout}
          /\ maps' = [p \in 1..Len(maps) |->
                         IF maps[p] \in DeclaredDead THEN PENDING ELSE maps[p]]
          /\ results' = results
          /\ recieved' = recieved
          /\ \A q \in 1..Len(timers) : q \notin DeclaredDead => timers'[q] = timers[q]
          /\ \A w \in Workers :
                inbox'[w] = IF w \in DeclaredDead THEN Append(inbox[w], StopMsg)
                                                  ELSE inbox[w]]_vars

\* both workers were declared dead with the same time stamp, one of them
\* holding units, while other units were Done
C15_Witness ==
    /\ pc = "monitoring"
    /\ \A w \in Workers :
          /\ timers[w] = Cleared
          /\ inbox[w] # <<>>
          /\ inbox[w][Len(inbox[w])] = StopMsg
    /\ PENDING \in Range(maps)
    /\ DONE \in Range(maps)

\* the positions named by a batch
BatchIndices(batch) == {batch[k].index : k \in 1..Len(batch)}

\* C16: when the master handles a Completion from worker w and a unit is
\* Pending once the reported units are recorded, exactly one Dispatch is sent,
\* to w, and exactly the units of that batch become Assigned to w; when no unit
\* is Pending, no message is sent and no unit becomes Assigned.
C16_RedispatchToReporter ==
    [][\A w \in Workers :
          Receive(w) =>
              LET reported == Range(Head(outbox[w]).index)
                  pendingLeft == {p \in 1..Len(maps) : maps[p] = PENDING /\ p \notin reported}
                  becameAssigned == {p \in 1..Len(maps) :
                                        maps'[p] \in Workers /\ (maps[p] # maps'[p] \/ p \in reported)}
              IN /\ \A v \in Workers \ {w} : inbox'[v] = inbox[v]
                 /\ IF pendingLeft # {}
                    THEN /\ Len(inbox'[w]) = Len(inbox[w]) + 1
                         /\ SubSeq(inbox'[w], 1, Len(inbox[w])) = inbox[w]
                         /\ inbox'[w][Len(inbox'[w])].type = "task"
                         /\ becameAssigned = BatchIndices(inbox'[w][Len(inbox'[w])].batch)
                         /\ \A p \in becameAssigned : maps'[p] = w
                    ELSE /\ inbox'[w] = inbox[w]
                         /\ becameAssigned = {}]_vars

\* the last unit of a directory of MaxFiles files was dispatched in reply to a
\* completion and is Assigned to the worker that reported
C16_Witness ==
    /\ pc = "monitoring"
    /\ nfiles = MaxFiles
    /\ \E w \in Workers :
          /\ maps[nfiles] = w
          /\ inbox[w] # <<>>
          /\ inbox[w][Len(inbox[w])].type = "task"
          /\ nfiles \in BatchIndices(inbox[w][Len(inbox[w])].batch)

\* C17: the batch the master sends in reply to a Completion is made of the
\* min(BatchSize, number of Pending units) lowest Pending positions, in
\* ascending order, each with its own file, and every position in it is Pending
\* when the batch is built (after the reported units are recorded).
C17_FollowUpBatchLowestPending ==
    [][\A w \in Workers :
          (Receive(w) /\ Len(inbox'[w]) > Len(inbox[w])) =>
              LET reported == Range(Head(outbox[w]).index)
                  pend == {p \in 1..Len(maps) : maps[p] = PENDING /\ p \notin reported}
                  batch == inbox'[w][Len(inbox'[w])].batch
              IN /\ Len(batch) = Min(BatchSize, Cardinality(pend))
                 /\ \A k \in 1..Len(batch) :
                       /\ batch[k].index \in pend
                       /\ batch[k].file = log_files[batch[k].index]
                       /\ k > 1 => batch[k - 1].index < batch[k].index
                 /\ \A p \in pend \ BatchIndices(batch) :
                       \A k \in 1..Len(batch) : batch[k].index < p]_vars

\* worker 2 was sent a full follow-up batch that starts with the first unit
\* (reclaimed from worker 1) while another unit stayed Pending
C17_Witness ==
    /\ pc = "monitoring"
    /\ inbox[2] # <<>>
    /\ LET m == inbox[2][Len(inbox[2])]
       IN /\ m.type = "task"
          /\ Len(m.batch) = BatchSize
          /\ m.batch[1].index = 1
    /\ maps[1] = 2
    /\ PENDING \in Range(maps)

\* the index list of the one message worker w was sent in the dispatch loop:
\* still in its channel, or answered by its Completion
InitialBatchOf(w) ==
    IF inbox[w] # <<>>
    THEN [k \in 1..Len(inbox[w][1].batch) |-> inbox[w][1].batch[k].index]
    ELSE outbox[w][1].index

\* C18: at the end of the dispatch loop of a fresh or resumed run, every worker
\* was sent exactly one Dispatch; worker i got the i-th slice of BatchSize of
\* the units that were Pending at start-up (as loaded from the checkpoint or
\* the directory), in ascending order (fewer or none when not enough are
\* Pending); the batches are disjoint and hold no Done unit; exactly the
\* dispatched units are Assigned, each to the worker it was sent to, and every
\* other unit is as it was loaded.
C18_InitialDispatchSlices ==
    (pc = "dispatching" /\ dispatch_i = size) =>
        LET WasPending(p) == LoadedMaps[p] = PENDING
            pend == SelectSeq([p \in 1..Len(LoadedMaps) |-> p], WasPending)
            slice(i) == SubSeq(pend, (i - 1) * BatchSize + 1, Min(i * BatchSize, Len(pend)))
            dispatched == UNION {Range(slice(i)) : i \in Workers}
        IN /\ Len(maps) = Len(LoadedMaps)
           /\ \A p \in 1..Len(maps) : p \notin dispatched => maps[p] = LoadedMaps[p]
           /\ \A w \in Workers :
                 /\ Len(inbox[w]) + Len(outbox[w]) = 1
                 /\ inbox[w] # <<>> => inbox[w][1].type = "task"
                 /\ InitialBatchOf(w) = slice(w)
                 /\ \A p \in 1..Len(maps) : maps[p] = w <=> p \in Range(slice(w))
           /\ \A v, w \in Workers :
                 v # w => Range(InitialBatchOf(v)) \cap Range(InitialBatchOf(w)) = {}

\* the dispatch loop of a resumed run has ended: some units were Done at
\* start-up and every worker got units
C18_Witness ==
    /\ restarts > 0
    /\ pc = "dispatching"
    /\ dispatch_i = size
    /\ DONE \in Range(maps)
    /\ \A w \in Workers : w \in Range(maps)

\* C19: a worker that takes a Dispatch sends exactly one Completion, tagged with
\* its own rank, whose index list is the batch's in the same order with the
\* result of the file of each index; a worker sends a message only when it takes
\* a Dispatch; a worker that takes Stop sends nothing and has terminated, and a
\* terminated worker stays so and takes no further message in that run.
C19_WorkerPurelyReactive ==
    [][restarts' = restarts =>
          \A w \in Workers :
              /\ outbox'[w] # outbox[w] /\ Len(outbox'[w]) >= Len(outbox[w]) =>
                    /\ wstate[w] = "running"
                    /\ inbox[w] # <<>>
                    /\ Head(inbox[w]).type = "task"
              /\ (wstate[w] = "running" /\ inbox[w] # <<>> /\ inbox'[w] = Tail(inbox[w])) =>
                    LET task == Head(inbox[w])
                    IN IF task.type = "task"
                       THEN /\ Len(outbox'[w]) = Len(outbox[w]) + 1
                            /\ SubSeq(outbox'[w], 1, Len(outbox[w])) = outbox[w]
                            /\ LET c == outbox'[w][Len(outbox'[w])]
                               IN /\ c.worker = w
                                  /\ Len(c.index) = Len(task.batch)
                                  /\ Len(c.result) = Len(task.batch)
                                  /\ \A k \in 1..Len(task.batch) :
                                        /\ c.index[k] = task.batch[k].index
                                        /\ c.result[k] = analyse_log_file(task.batch[k].file)
                            /\ wstate'[w] = "running"
                       ELSE /\ outbox'[w] = outbox[w]
                            /\ wstate'[w] = "stopped"
              /\ wstate[w] = "stopped" =>
                    /\ wstate'[w] = "stopped"
                    /\ Len(inbox'[w]) >= Len(inbox[w])
                    /\ Len(outbox'[w]) <= Len(outbox[w])]_vars

\* a worker has terminated on Stop and a Dispatch that was sent to it afterwards
\* stays in its channel, unanswered
C19_Witness ==
    \E w \in Workers :
        /\ wstate[w] = "stopped"
        /\ inbox[w] # <<>>
        /\ Head(inbox[w]).type = "task"
        /\ Len(Head(inbox[w]).batch) > 0

\* the master has left its monitoring loop (the stop broadcast is sent)
AfterLoop == PastLoop \/ pc = "KeyError"

\* C20: when the monitoring loop exits, Stop is sent to every worker, whatever
\* happened to it before; afterwards the master sends nothing; and every worker
\* that is running when the loop has exited receives a Stop and terminates,
\* unless it dies.
C20_StopBroadcast ==
    /\ [][LoopExit => \A w \in Workers : inbox'[w] = Append(inbox[w], StopMsg)]_vars
    /\ [][AfterLoop => \A w \in Workers : Len(inbox'[w]) <= Len(inbox[w])]_vars
    /\ \A w \in Workers :
          (AfterLoop /\ wstate[w] = "running") ~> (wstate[w] \in {"stopped", "crashed"})

\* the loop has exited; one worker had been declared dead and had terminated
\* before and was sent Stop again, another is still running and its Stop is in
\* its channel
C20_Witness ==
    /\ PastLoop
    /\ \E v, w \in Workers :
          /\ wstate[v] = "stopped"
          /\ inbox[v] # <<>>
          /\ inbox[v][Len(inbox[v])] = StopMsg
          /\ wstate[w] = "running"
          /\ inbox[w] # <<>>
          /\ inbox[w][Len(inbox[w])] = StopMsg

\* a pass of the monitoring loop: the poll finds nothing, or a completion
LoopPass == PollIdle \/ PollCheckpoint \/ \E w \in Workers : Receive(w)

\* C21: a pass of the monitoring loop that starts when more than
\* CheckpointInterval seconds have elapsed since the previous checkpoint writes
\* a periodic checkpoint, whether or not the poll of that pass finds a
\* completion.
C21_CheckpointOnCadence ==
    [][(checkpointer > CheckpointInterval /\ LoopPass)
          => (pc' = "save_rmtree" /\ saving'.caller = "periodic")]_vars

\* ------------------------------------- the two halves of a dispatch, apart
\* The runs of claim C22: as the runs without a timeout, with the comm.send of
\* a Dispatch and the update of maps that follows it as two steps of the
\* master, between which the workers run.
\* lines 153-159: the command of worker i is built and sent, its timer stamped
SendInitial ==
    /\ pc = "dispatching"
    /\ dispatch_i < size
    /\ sent = NoSend
    /\ LET slice == InitialSlice(first_indices, dispatch_i)
       IN /\ inbox' = [inbox EXCEPT ![dispatch_i] = Append(@, TaskMsg(MakeBatch(log_files, slice)))]
          /\ sent' = [to |-> dispatch_i, idxs |-> slice]
    /\ timers' = [timers EXCEPT ![dispatch_i] = 0]
    /\ UNCHANGED <<nfiles, disk, damaged, restarts, pc, log_files, maps, total_counts, recieved,
                   results, checkpointer, saving, first_indices, dispatch_i, outbox, wstate, comm_size, chunked>>

\* lines 161-164: the positions of the command are set to i in maps
RecordInitial ==
    /\ pc = "dispatching"
    /\ sent # NoSend
    /\ maps' = [p \in 1..Len(maps) |-> IF p \in Range(sent.idxs) THEN sent.to ELSE maps[p]]
    /\ dispatch_i' = dispatch_i + 1
    /\ sent' = NoSend
    /\ UNCHANGED <<nfiles, disk, damaged, restarts, pc, log_files, total_counts, recieved, timers,
                   results, checkpointer, saving, first_indices, inbox, outbox, wstate, comm_size, chunked>>

\* lines 205-226: the completion at the head of worker w's channel is recorded
\* and, if a unit is Pending, the next batch is sent to the worker
HandleCompletion(w) ==
    /\ pc = "monitoring"
    /\ LoopCondition
    /\ sent = NoSend
    /\ outbox[w] # <<>>
    /\ LET result == Head(outbox[w])
           done == CompletedMaps(maps, result.index)
           next_files == NextFiles(done)
       IN /\ recieved' = recieved + Len(result.result)
          /\ results' = results \o result.result
          /\ timers' = [timers EXCEPT ![result.worker] = 0]
          /\ maps' = done
          /\ IF PENDING \in Range(done)
             THEN /\ inbox' = [inbox EXCEPT ![result.worker] =
                                  Append(@, TaskMsg(MakeBatch(log_files, next_files)))]
                  /\ sent' = [to |-> result.worker, idxs |-> next_files]
             ELSE /\ inbox' = inbox
                  /\ sent' = NoSend
    /\ outbox' = [outbox EXCEPT ![w] = Tail(@)]
    /\ UNCHANGED <<first_indices, dispatch_i, nfiles, disk, damaged, restarts, pc, log_files, total_counts,
                   checkpointer, saving, wstate, comm_size, chunked>>

\* line 227: the positions of next_files are set to the worker in maps
RecordFollowUp ==
    /\ pc = "monitoring"
    /\ sent # NoSend
    /\ maps' = [p \in 1..Len(maps) |-> IF p \in Range(sent.idxs) THEN sent.to ELSE maps[p]]
    /\ sent' = NoSend
    /\ UNCHANGED <<first_indices, dispatch_i, nfiles, disk, damaged, restarts, pc, log_files, total_counts,
                   recieved, timers, results, checkpointer, saving, inbox, outbox, wstate, comm_size, chunked>>

OrderNext ==
    \/ Start
    \/ SendInitial
    \/ RecordInitial
    \/ sent = NoSend /\ StartMonitoring
    \/ sent = NoSend /\ PollIdle
    \/ sent = NoSend /\ PollCheckpoint
    \/ \E w \in Workers : HandleCompletion(w)
    \/ RecordFollowUp
    \/ sent = NoSend /\ LoopExit
    \/ SaveRmtree
    \/ SaveOpen
    \/ SaveWrite
    \/ \E w \in Workers : WorkerStep(w)
    \/ CalmTick

OrderSpec == Init /\ [][OrderNext]_vars

\* C22: every unit named by a Dispatch that is in flight (sent and not yet
\* taken by the worker) is recorded in maps as not Pending: the master writes
\* the units of a batch into maps before it sends the batch.
C22_RecordedBeforeSent ==
    \A w \in Workers :
        \A k \in 1..Len(inbox[w]) :
            inbox[w][k].type = "task" =>
                \A p \in BatchIndices(inbox[w][k].batch) : maps[p] # PENDING

\* C23: whenever the master is at the head of its monitoring loop, recieved
\* equals the number of units that are Done.
C23_RecievedCountsDone ==
    pc = "monitoring" => recieved = DoneCount

\* worker w was sent Stop by a timeout scan: the master is still in its loop
\* and a Stop is in w's channel or w has left its loop on one
StoppedByTimeout(w) ==
    /\ pc = "monitoring" \/ (Saving /\ saving.caller = "periodic")
    /\ wstate[w] = "stopped" \/ StopMsg \in Range(inbox[w])

\* C24: once a worker was sent Stop because of a timeout, the master sends it
\* no Dispatch and marks no unit as Assigned to it.
C24_NoDispatchAfterTimeoutStop ==
    [][restarts' = restarts =>
          \A w \in Workers :
              StoppedByTimeout(w) =>
                  /\ Len(inbox'[w]) > Len(inbox[w]) => inbox'[w][Len(inbox'[w])] = StopMsg
                  /\ \A p \in 1..Len(maps) : maps'[p] = w => maps[p] = w]_vars

\* ===================================================================
\* The round-robin variant, implementation/stage2/parallel_log_analyzer.py
\* ===================================================================
\* One file per message: the master sends one file to every worker, then one
\* more file to each worker that reports a result, and Stop to all when
\* nothing is left.  No timers, no checkpoint.  The program's log_files, maps,
\* results and recieved are the variables of the same names, dispatch_i is the
\* i of its first loop; a Dispatch is [type, file], a result [result, worker].
RRMaxFiles == 6

RRTask(f) == [type |-> "task", file |-> f]
RRStop == [type |-> "stop", file |-> 0]

\* lines 82-100: the directory is listed, maps = [0]*len(log_files)
RRStart ==
    /\ pc = "start"
    /\ log_files' = [i \in 1..nfiles |-> i]
    /\ maps' = Repeat(PENDING, nfiles)
    /\ results' = <<>>
    /\ dispatch_i' = 1
    /\ pc' = "rr_dispatching"
    /\ UNCHANGED <<nfiles, disk, damaged, restarts, total_counts, recieved, timers, checkpointer,
                   saving, first_indices, inbox, outbox, wstate, sent, comm_size, chunked>>

\* one pass of "for i in range(1, size)", lines 101-103: log_files[i-1] raises
\* IndexError when there are fewer files than workers
RRInitialSend ==
    /\ pc = "rr_dispatching"
    /\ dispatch_i < size
    /\ IF dispatch_i > Len(log_files)
       THEN /\ pc' = "IndexError"
            /\ UNCHANGED <<inbox, maps, dispatch_i>>
       ELSE /\ inbox' = [inbox EXCEPT ![dispatch_i] = Append(@, RRTask(log_files[dispatch_i]))]
            /\ maps' = [maps EXCEPT ![dispatch_i] = dispatch_i]
            /\ dispatch_i' = dispatch_i + 1
            /\ pc' = pc
    /\ UNCHANGED <<nfiles, disk, damaged, restarts, log_files, total_counts, recieved, timers,
                   results, checkpointer, saving, first_indices, outbox, wstate, sent, comm_size, chunked>>

\* line 105: recieved = 0, and the loop is entered
RRStartLoop ==
    /\ pc = "rr_dispatching"
    /\ dispatch_i = size
    /\ recieved' = 0
    /\ pc' = "rr_loop"
    /\ UNCHANGED <<nfiles, disk, damaged, restarts, log_files, maps, total_counts, timers, results,
                   checkpointer, saving, first_indices, dispatch_i, inbox, outbox, wstate, sent, comm_size, chunked>>

\* one pass of the loop, lines 106-114: comm.recv returns the result at the
\* head of worker w's channel; the first file with maps entry 0, if any, is
\* sent to the worker that reported
RRReceive(w) ==
    /\ pc = "rr_loop"
    /\ LoopCondition
    /\ outbox[w] # <<>>
    /\ LET result == Head(outbox[w])
       IN /\ recieved' = recieved + 1
          /\ results' = Append(results, result.result)
          /\ IF PENDING \in Range(maps)
             THEN LET next_file == IndexOf(maps, PENDING)
                  IN /\ inbox' = [inbox EXCEPT ![result.worker] =
                                     Append(@, RRTask(log_files[next_file]))]
                     /\ maps' = [maps EXCEPT ![next_file] = result.worker]
             ELSE UNCHANGED <<inbox, maps>>
    /\ outbox' = [outbox EXCEPT ![w] = Tail(@)]
    /\ UNCHANGED <<nfiles, disk, damaged, restarts, pc, log_files, total_counts, timers,
                   checkpointer, saving, first_indices, dispatch_i, wstate, sent, comm_size, chunked>>

\* lines 116-135: Stop to every worker, the results are merged and printed
RRLoopExit ==
    /\ pc = "rr_loop"
    /\ ~LoopCondition
    /\ inbox' = [w \in Workers |-> Append(inbox[w], RRStop)]
    /\ total_counts' = MergeAll(EmptyDefaultDict, results).counts
    /\ pc' = "terminated"
    /\ UNCHANGED <<nfiles, disk, damaged, restarts, log_files, maps, recieved, timers, results,
                   checkpointer, saving, first_indices, dispatch_i, outbox, wstate, sent, comm_size, chunked>>

\* the worker loop, lines 137-143
RRWorkerStep(w) ==
    /\ wstate[w] = "running"
    /\ inbox[w] # <<>>
    /\ LET task == Head(inbox[w])
       IN IF task.type = "stop"
          THEN /\ wstate' = [wstate EXCEPT ![w] = "stopped"]
               /\ outbox' = outbox
          ELSE /\ outbox' = [outbox EXCEPT ![w] =
                                Append(@, [result |-> analyse_log_file(task.file), worker |-> w])]
               /\ wstate' = wstate
    /\ inbox' = [inbox EXCEPT ![w] = Tail(@)]
    /\ UNCHANGED <<nfiles, disk, damaged, restarts, pc, log_files, maps, total_counts, recieved,
                   timers, results, checkpointer, saving, first_indices, dispatch_i, sent, comm_size, chunked>>

RRNext ==
    \/ RRStart
    \/ RRInitialSend
    \/ RRStartLoop
    \/ \E w \in Workers : RRReceive(w)
    \/ RRLoopExit
    \/ \E w \in Workers : RRWorkerStep(w)

\* the program is started on a directory of 1..RRMaxFiles files
RRInit ==
    /\ nfiles \in 1..RRMaxFiles
    /\ disk = NoCheckpoint
    /\ damaged = FALSE
    /\ restarts = 0
    /\ comm_size = size
    /\ chunked = <<>>
    /\ FreshMemory

RRSpec == RRInit /\ [][RRNext]_vars


\* C25: in the round-robin variant, with no failures, the master never dies
\* in its dispatch loop; when it has terminated it has received exactly one
\* result per file, every file was given to one worker, and every worker has
\* been sent Stop; and the run only comes to rest with the master terminated
\* and every worker stopped.
C25_RoundRobinCompletes ==
    /\ pc # "IndexError"
    /\ pc = "terminated" =>
          /\ recieved = nfiles
          /\ Len(results) = nfiles
          /\ \A p \in 1..Len(maps) : maps[p] \in Workers
          /\ \A w \in Workers :
                wstate[w] = "stopped" \/ (inbox[w] # <<>> /\ inbox[w][Len(inbox[w])] = RRStop)
    /\ ~(ENABLED RRNext) => (pc = "terminated" /\ \A w \in Workers : wstate[w] = "stopped")


\* ===================================================================
\* The static scatter variant, implementation/stage1/parallel_log_analyzer.py
\* ===================================================================
\* The master cuts log_files into chunks, comm.scatter hands one chunk to each
\* of the comm_size processes (the master included), every process counts its
\* chunk, comm.gather collects the counts and the master merges them.
ScatterMaxFiles == 8
ScatterMaxSize == 5

\* line 98: chunk_size = len(log_files) // size
ChunkSize(files, sz) == Len(files) \div sz

\* log_files[a:a + n] of Python, a counted from 0: the slice ends with the list
Slice(files, a, n) == SubSeq(files, a + 1, Min(a + n, Len(files)))

\* line 100: one slice for each i in range(0, len(log_files), chunk_size)
Chunks(files, cs) ==
    [k \in 1..((Len(files) + cs - 1) \div cs) |-> Slice(files, (k - 1) * cs, cs)]

\* lines 82-96: the directory is listed
ScatterStart ==
    /\ pc = "start"
    /\ log_files' = [i \in 1..nfiles |-> i]
    /\ pc' = "chunking"
    /\ UNCHANGED <<nfiles, disk, damaged, restarts, maps, total_counts, recieved, timers, results,
                   checkpointer, saving, first_indices, dispatch_i, inbox, outbox, wstate, sent,
                   comm_size, chunked>>

\* lines 98-100: range() with a step of 0 raises ValueError
Chunk ==
    /\ pc = "chunking"
    /\ LET chunk_size == ChunkSize(log_files, comm_size)
       IN IF chunk_size = 0
          THEN /\ pc' = "ValueError"
               /\ chunked' = chunked
          ELSE /\ chunked' = Chunks(log_files, chunk_size)
               /\ pc' = "scattering"
    /\ UNCHANGED <<nfiles, disk, damaged, restarts, log_files, maps, total_counts, recieved, timers,
                   results, checkpointer, saving, first_indices, dispatch_i, inbox, outbox, wstate,
                   sent, comm_size>>

\* the counts of one chunk, lines 105-111
LocalCounts(local_log) ==
    MergeAll(EmptyDefaultDict, [j \in 1..Len(local_log) |-> analyse_log_file(local_log[j])]).counts

\* lines 104-113: comm.scatter raises ValueError unless the list has one item
\* for each process; otherwise every process counts its chunk and comm.gather
\* returns the counts in rank order
ScatterGather ==
    /\ pc = "scattering"
    /\ IF Len(chunked) # comm_size
       THEN /\ pc' = "ValueError"
            /\ results' = results
       ELSE /\ results' = [r \in 1..comm_size |-> LocalCounts(chunked[r])]
            /\ pc' = "gathered"
    /\ UNCHANGED <<nfiles, disk, damaged, restarts, log_files, maps, total_counts, recieved, timers,
                   checkpointer, saving, first_indices, dispatch_i, inbox, outbox, wstate, sent,
                   comm_size, chunked>>

\* lines 116-120: the master merges the gathered counts
FinalMerge ==
    /\ pc = "gathered"
    /\ total_counts' = MergeAll(EmptyDefaultDict, results).counts
    /\ pc' = "terminated"
    /\ UNCHANGED <<nfiles, disk, damaged, restarts, log_files, maps, recieved, timers, results,
                   checkpointer, saving, first_indices, dispatch_i, inbox, outbox, wstate, sent,
                   comm_size, chunked>>

ScatterNext == ScatterStart \/ Chunk \/ ScatterGather \/ FinalMerge

\* the program is started with 1..ScatterMaxSize processes on a directory of
\* 1..ScatterMaxFiles files
ScatterInit ==
    /\ nfiles \in 1..ScatterMaxFiles
    /\ comm_size \in 1..ScatterMaxSize
    /\ disk = NoCheckpoint
    /\ damaged = FALSE
    /\ restarts = 0
    /\ chunked = <<>>
    /\ FreshMemory

ScatterSpec == ScatterInit /\ [][ScatterNext]_vars

\* the chunking of log_files is done
Chunked == pc \in {"scattering", "gathered", "terminated"}

\* how often file f occurs in the chunks
Occurrences(f) ==
    Cardinality({c \in {<<k, j>> : k \in 1..Len(chunked), j \in 1..ScatterMaxFiles} :
                    c[2] <= Len(chunked[c[1]]) /\ chunked[c[1]][c[2]] = f})

\* C26: for every number of files and every process count the chunking does
\* not fail and produces exactly one chunk per process, and every file is in
\* exactly one chunk, once.
C26_ChunksOnePerProcess ==
    /\ pc # "ValueError"
    /\ Chunked =>
          /\ Len(chunked) = comm_size
          /\ \A f \in Range(log_files) : Occurrences(f) = 1

====
